---- MODULE Spec2Model ----
\* A model of libfen-rs (src/src/lib.rs): the FEN decoder with its strict
\* entry point parse and its lenient entry points parse_or_default and
\* parse_or_else.  Text is a sequence of one-character strings.
EXTENDS Integers, Sequences, FiniteSets, TLC

VARIABLES
  text,      \* the fen_str of the current call
  defaults,  \* the snapshot the caller holds and passes to parse_or_else
  decoded,   \* the six decoder results do_parse holds before applying them
  result,    \* what the last call returned
  op,        \* the entry point of the last call
  pc         \* "seed", "seeded", "ready", "done"

vars == <<text, defaults, decoded, result, op, pc>>

---------------------------------------------------------------------------
\* Option<T> and Result<T, LibFenError>

None == [some |-> FALSE]
Some(v) == [some |-> TRUE, val |-> v]

Ok(v) == [ok |-> TRUE, val |-> v]
Err(e) == [ok |-> FALSE, err |-> e]

IncompleteFen == "IncompleteFen"
IllegalInput == "IllegalInput"
Generic == "Generic"

---------------------------------------------------------------------------
\* Characters

Whitespace == {" ", "\t", "\n"}

LowerLetters ==
  {"a","b","c","d","e","f","g","h","i","j","k","l","m",
   "n","o","p","q","r","s","t","u","v","w","x","y","z"}

UpperLetters ==
  {"A","B","C","D","E","F","G","H","I","J","K","L","M",
   "N","O","P","Q","R","S","T","U","V","W","X","Y","Z"}

is_ascii_uppercase(c) == c \in UpperLetters

is_alphabetic(c) == c \in LowerLetters \cup UpperLetters

DecimalDigits == {"0","1","2","3","4","5","6","7","8","9"}

to_digit(c) ==
  CASE c = "0" -> 0 [] c = "1" -> 1 [] c = "2" -> 2 [] c = "3" -> 3
    [] c = "4" -> 4 [] c = "5" -> 5 [] c = "6" -> 6 [] c = "7" -> 7
    [] c = "8" -> 8 [] c = "9" -> 9

\* (c as u8) - ('a' as u8) for the letters the en-passant pattern admits
FileOffset(c) ==
  CASE c = "a" -> 0 [] c = "b" -> 1 [] c = "c" -> 2 [] c = "d" -> 3
    [] c = "e" -> 4 [] c = "f" -> 5 [] c = "g" -> 6 [] c = "h" -> 7

\* the character class [prnbqkbnrPRNBQKBNR1-8] of RANK_REGEX
RankClass ==
  {"p","r","n","b","q","k","P","R","N","B","Q","K",
   "1","2","3","4","5","6","7","8"}

\* the classes [a-g] and [36] of EN_PASSANT_REGEX
EpFileClass == {"a","b","c","d","e","f","g"}
EpRankClass == {"3","6"}

WHITE_KINGSIDE == 1
WHITE_QUEENSIDE == 2
BLACK_KINGSIDE == 4
BLACK_QUEENSIDE == 8

\* RANK_REGEX.repeat(8), and the {1,8} repetition inside RANK_REGEX
RankRepeat == 8
RankGroupMax == 8

\* the board is [[Option<Piece>; 8]; 8]; the cursor stops at x >= 8
BoardSize == 8

I32Max == 2147483647
I32Min == (-I32Max) - 1

---------------------------------------------------------------------------
\* str::split_whitespace and Iterator::next

\* the positions where a token starts: a non-whitespace character at the
\* start of the text or right after whitespace
TokenStarts(s) ==
  {i \in 1..Len(s) : s[i] \notin Whitespace /\ (i = 1 \/ s[i - 1] \in Whitespace)}

\* the positions where a token ends: a non-whitespace character at the end
\* of the text or right before whitespace
TokenEnds(s) ==
  {i \in 1..Len(s) : s[i] \notin Whitespace /\ (i = Len(s) \/ s[i + 1] \in Whitespace)}

\* the n-th smallest element of a set of positions
NthOf(S, n) == CHOOSE i \in S : Cardinality({j \in S : j < i}) = n - 1

\* the maximal runs of non-whitespace characters, in order
split_whitespace(s) ==
  LET starts == TokenStarts(s)
      ends == TokenEnds(s)
  IN [n \in 1..Cardinality(starts) |-> SubSeq(s, NthOf(starts, n), NthOf(ends, n))]

\* the n-th call of split.next()
NextToken(split, n) == IF n <= Len(split) THEN Some(split[n]) ELSE None

---------------------------------------------------------------------------
\* GameState

Position(x, y) == <<x, y>>

GameState_blank ==
  [pieces |-> [y \in 0..(BoardSize - 1) |-> [x \in 0..(BoardSize - 1) |-> None]],
   active_color |-> "White",
   castling_availability |-> 0,
   en_passant |-> None,
   half_move_clock |-> 0,
   full_move_clock |-> 1]

---------------------------------------------------------------------------
\* parse_rank: one rank-group, column cursor x, row y

\* rows counted from the top: rank-group 1 on row 0
RowFromTop(cap_idx) == cap_idx - 1

\* the row handed to parse_rank for capture group cap_idx (1..8)
RowOfCapture(cap_idx) == 7 - (cap_idx - 1)

KindOf(c) ==
  CASE c \in {"p","P"} -> "Pawn"
    [] c \in {"r","R"} -> "Rook"
    [] c \in {"n","N"} -> "Knight"
    [] c \in {"b","B"} -> "Bishop"
    [] c \in {"q","Q"} -> "Queen"
    [] c \in {"k","K"} -> "King"

PieceLetters == {"p","P","r","R","n","N","b","B","q","Q","k","K"}
RankDigits == {"1","2","3","4","5","6","7","8"}

RECURSIVE RankLoop(_, _, _, _, _)
\* the for-loop of parse_rank from character i on, with cursor x
RankLoop(y, rank, i, x, pieces) ==
  IF i > Len(rank) THEN pieces
  ELSE IF x >= BoardSize THEN pieces
  ELSE
    LET c == rank[i]
        color == IF is_ascii_uppercase(c) THEN "White" ELSE "Black"
        pushed == IF c \in PieceLetters
                    THEN Append(pieces, [kind |-> KindOf(c), color |-> color,
                                         position |-> Position(x, y)])
                    ELSE pieces
        x1 == IF c \in RankDigits THEN x + to_digit(c) ELSE x
        x2 == IF is_alphabetic(c) THEN x1 + 1 ELSE x1
    IN RankLoop(y, rank, i + 1, x2, pushed)

RECURSIVE RankLoopUnbounded(_, _, _, _, _)
\* the loop without its test of the cursor against the board's width
RankLoopUnbounded(y, rank, i, x, pieces) ==
  IF i > Len(rank) THEN pieces
  ELSE
    LET c == rank[i]
        color == IF is_ascii_uppercase(c) THEN "White" ELSE "Black"
        pushed == IF c \in PieceLetters
                    THEN Append(pieces, [kind |-> KindOf(c), color |-> color,
                                         position |-> Position(x, y)])
                    ELSE pieces
        x1 == IF c \in RankDigits THEN x + to_digit(c) ELSE x
        x2 == IF is_alphabetic(c) THEN x1 + 1 ELSE x1
    IN RankLoopUnbounded(y, rank, i + 1, x2, pushed)

parse_rank_unbounded(y, rank) ==
  IF y > 7 THEN <<>> ELSE RankLoopUnbounded(y, rank, 1, 0, <<>>)

parse_rank(y, rank) ==
  IF y > 7 THEN <<>> ELSE RankLoop(y, rank, 1, 0, <<>>)

---------------------------------------------------------------------------
\* Regex "^(([class]{1,8})/?){8}$" with leftmost-first (greedy) captures

NoMatch == [matched |-> FALSE]

Min(a, b) == IF a < b THEN a ELSE b

\* number of consecutive RankClass characters of s from position pos, up
\* to the 8 that one group can take
ClassRun(s, pos) ==
  CHOOSE k \in 0..RankGroupMax :
    /\ \A j \in 0..(k - 1) : pos + j <= Len(s) /\ s[pos + j] \in RankClass
    /\ k = RankGroupMax \/ pos + k > Len(s) \/ s[pos + k] \notin RankClass

RECURSIVE MatchGroups(_, _, _)
RECURSIVE TryGroupLen(_, _, _, _)

\* groups n.. of the pattern against s from pos; the end anchor after the
\* last.  A group is given no more characters than leave one for each group
\* after it, and no group is tried when more characters remain than the
\* groups can take (8 and a separator each): no match is lost by either.
MatchGroups(s, pos, n) ==
  IF n = 0
    THEN IF pos = Len(s) + 1 THEN [matched |-> TRUE, caps |-> <<>>] ELSE NoMatch
    ELSE IF Len(s) + 1 - pos > n * (RankGroupMax + 1) THEN NoMatch
    ELSE TryGroupLen(s, pos, n, Min(ClassRun(s, pos), Len(s) + 1 - pos - (n - 1)))

\* the greedy {1,8}: k characters first, then k-1, ...; the greedy /? takes
\* the separator first and gives it back if the rest cannot match
TryGroupLen(s, pos, n, k) ==
  IF k < 1 THEN NoMatch
  ELSE
    LET after == pos + k
        group == SubSeq(s, pos, after - 1)
        withSep == IF after <= Len(s) /\ s[after] = "/"
                     THEN MatchGroups(s, after + 1, n - 1)
                     ELSE NoMatch
        noSep == MatchGroups(s, after, n - 1)
    IN IF withSep.matched
         THEN [matched |-> TRUE, caps |-> <<group>> \o withSep.caps]
         ELSE IF noSep.matched
           THEN [matched |-> TRUE, caps |-> <<group>> \o noSep.caps]
           ELSE TryGroupLen(s, pos, n, k - 1)

\* re.captures(ranks) for the pattern "^" + RANK_REGEX.repeat(8) + "$"
RankCaptures(ranks) == MatchGroups(ranks, 1, RankRepeat)

RECURSIVE FlatMapRanks(_, _)
\* cap.iter().enumerate().skip(1).flat_map(parse_rank(7-(cap_idx-1), ..))
FlatMapRanks(caps, cap_idx) ==
  IF cap_idx > Len(caps) THEN <<>>
  ELSE parse_rank(RowOfCapture(cap_idx), caps[cap_idx]) \o FlatMapRanks(caps, cap_idx + 1)

parse_ranks(ranks) ==
  IF ~ranks.some THEN Err(IncompleteFen)
  ELSE LET cap == RankCaptures(ranks.val)
       IN IF ~cap.matched THEN Err(Generic)
          ELSE Ok(FlatMapRanks(cap.caps, 1))

---------------------------------------------------------------------------
\* The five other field decoders

parse_active_color(input) ==
  IF ~input.some THEN Err(IncompleteFen)
  ELSE IF input.val = <<"w">> THEN Ok("White")
  ELSE IF input.val = <<"b">> THEN Ok("Black")
  ELSE Err(IllegalInput)

\* input.find(c) is Some
Contains(s, c) == \E i \in 1..Len(s) : s[i] = c

\* value |= flag, the flags being distinct bits and value starting at 0
BitIf(s, c, flag) == IF Contains(s, c) THEN flag ELSE 0

\* the two black flags taken for each other
parse_castling_swapped(input) ==
  IF ~input.some THEN Err(IncompleteFen)
  ELSE Ok(BitIf(input.val, "K", WHITE_KINGSIDE)
          + BitIf(input.val, "k", BLACK_QUEENSIDE)
          + BitIf(input.val, "Q", WHITE_QUEENSIDE)
          + BitIf(input.val, "q", BLACK_KINGSIDE))

parse_castling_availabilty(input) ==
  IF ~input.some THEN Err(IncompleteFen)
  ELSE Ok(BitIf(input.val, "K", WHITE_KINGSIDE)
          + BitIf(input.val, "k", BLACK_KINGSIDE)
          + BitIf(input.val, "Q", WHITE_QUEENSIDE)
          + BitIf(input.val, "q", BLACK_QUEENSIDE))

\* re.captures(input) for EN_PASSANT_REGEX = "^([a-g])([36])$"
EnPassantMatches(s) ==
  Len(s) = 2 /\ s[1] \in EpFileClass /\ s[2] \in EpRankClass

\* a decoder that takes the absence marker "-" for "no target"
parse_en_passant_dash(input) ==
  IF ~input.some THEN Err(IncompleteFen)
  ELSE IF input.val = <<"-">> THEN Ok(None)
  ELSE IF ~EnPassantMatches(input.val) THEN Err(Generic)
  ELSE Ok(Some(Position(FileOffset(input.val[1]), to_digit(input.val[2]))))

parse_en_passant(input) ==
  IF ~input.some THEN Err(IncompleteFen)
  ELSE IF ~EnPassantMatches(input.val) THEN Err(Generic)
  ELSE Ok(Some(Position(FileOffset(input.val[1]), to_digit(input.val[2]))))

RECURSIVE ParseDigits(_, _, _, _)
\* the digit loop of i32::from_str with its checked multiply and add/sub
ParseDigits(s, i, acc, neg) ==
  IF i > Len(s) THEN Ok(acc)
  ELSE IF s[i] \notin DecimalDigits THEN Err(IllegalInput)
  ELSE IF acc > I32Max \div 10 \/ acc < -(I32Max \div 10) THEN Err(IllegalInput)
  ELSE LET m == acc * 10
           d == to_digit(s[i])
       IN IF neg
            THEN IF m < I32Min + d THEN Err(IllegalInput)
                 ELSE ParseDigits(s, i + 1, m - d, neg)
            ELSE IF m > I32Max - d THEN Err(IllegalInput)
                 ELSE ParseDigits(s, i + 1, m + d, neg)

\* input.parse::<i32>().map_err(|_| IllegalInput)
ParseI32(s) ==
  IF Len(s) = 0 THEN Err(IllegalInput)
  ELSE IF s[1] \in {"+", "-"}
    THEN IF Len(s) = 1 THEN Err(IllegalInput)
         ELSE ParseDigits(s, 2, 0, s[1] = "-")
    ELSE ParseDigits(s, 1, 0, FALSE)

\* an absent token handed to the integer parser as the empty string
parse_move_clock_empty(input) ==
  IF ~input.some THEN ParseI32(<<>>) ELSE ParseI32(input.val)

parse_move_clock(input) ==
  IF ~input.some THEN Err(IncompleteFen) ELSE ParseI32(input.val)

---------------------------------------------------------------------------
\* The assembler

RECURSIVE PlacePieces(_, _, _, _)
\* for piece in pieces { game_state.pieces[piece.position.1][piece.position.0] = Some(piece) }
\* for the pieces lo..hi in order: the first half, then the second
PlacePieces(grid, pieces, lo, hi) ==
  IF lo > hi THEN grid
  ELSE IF lo = hi
    THEN [grid EXCEPT ![pieces[lo].position[2]][pieces[lo].position[1]] = Some(pieces[lo])]
    ELSE LET mid == (lo + hi) \div 2
         IN PlacePieces(PlacePieces(grid, pieces, lo, mid), pieces, mid + 1, hi)

\* the piece list of the placement field, empty in lenient mode on an error
AppliedPieces(d) == IF d.pieces.ok THEN d.pieces.val ELSE <<>>

\* lines 100-108 of do_parse: the six decoders run on the six next tokens
DecodeFields(fen_str) ==
  LET split == split_whitespace(fen_str)
  IN [pieces |-> parse_ranks(NextToken(split, 1)),
      active_color |-> parse_active_color(NextToken(split, 2)),
      castling_availability |-> parse_castling_availabilty(NextToken(split, 3)),
      en_passant |-> parse_en_passant(NextToken(split, 4)),
      half_move_clock |-> parse_move_clock(NextToken(split, 5)),
      full_move_clock |-> parse_move_clock(NextToken(split, 6))]

\* lines 110-122 of do_parse: the decoded values applied in field order
Assemble(d, dflt, strict) ==
  IF strict /\ ~d.pieces.ok THEN Err(d.pieces.err)
  ELSE IF strict /\ ~d.active_color.ok THEN Err(d.active_color.err)
  ELSE IF strict /\ ~d.castling_availability.ok THEN Err(d.castling_availability.err)
  ELSE IF strict /\ ~d.en_passant.ok THEN Err(d.en_passant.err)
  ELSE IF strict /\ ~d.half_move_clock.ok THEN Err(d.half_move_clock.err)
  ELSE IF strict /\ ~d.full_move_clock.ok THEN Err(d.full_move_clock.err)
  ELSE Ok([pieces |-> PlacePieces(dflt.pieces, AppliedPieces(d), 1, Len(AppliedPieces(d))),
           active_color |-> IF strict THEN d.active_color.val ELSE dflt.active_color,
           castling_availability |->
             IF strict THEN d.castling_availability.val ELSE dflt.castling_availability,
           en_passant |-> IF strict THEN d.en_passant.val ELSE dflt.en_passant,
           half_move_clock |-> IF strict THEN d.half_move_clock.val ELSE dflt.half_move_clock,
           full_move_clock |-> IF strict THEN d.full_move_clock.val ELSE dflt.full_move_clock])

\* missing tokens reported before anything else
AssembleMissingFirst(d, dflt, strict) ==
  IF strict /\ \E f \in DOMAIN d : d[f] = Err(IncompleteFen) THEN Err(IncompleteFen)
  ELSE Assemble(d, dflt, strict)

\* lenient mode taking a field from the text when its decoder accepted it
AssembleFromText(d, dflt, strict) ==
  LET r == Assemble(d, dflt, strict)
  IN IF strict \/ ~r.ok \/ ~d.full_move_clock.ok THEN r
     ELSE Ok([r.val EXCEPT !.full_move_clock = d.full_move_clock.val])

do_parse_missing_first(fen_str, dflt, strict) ==
  AssembleMissingFirst(DecodeFields(fen_str), dflt, strict)

do_parse_from_text(fen_str, dflt, strict) ==
  AssembleFromText(DecodeFields(fen_str), dflt, strict)

do_parse(fen_str, dflt, strict) == Assemble(DecodeFields(fen_str), dflt, strict)

parse(fen_str) == do_parse(fen_str, GameState_blank, TRUE)

\* a decoded placement replacing the defaults' grid instead of overlaying it
parse_or_else_replacing(fen_str, dflt) ==
  LET r == do_parse(fen_str, [dflt EXCEPT !.pieces = GameState_blank.pieces], FALSE)
  IN IF ~r.ok \/ r.val.pieces = GameState_blank.pieces THEN dflt ELSE r.val

\* do_parse(fen_str, defaults, false).unwrap_or(defaults)
parse_or_else(fen_str, dflt) ==
  LET r == do_parse(fen_str, dflt, FALSE)
  IN IF r.ok THEN r.val ELSE dflt

parse_or_default(fen_str) == parse_or_else(fen_str, GameState_blank)

---------------------------------------------------------------------------
\* Input texts

MaxGroupLen == 2
MaxTokenLen == 2

RECURSIVE StringsOfLen(_, _)
StringsOfLen(A, n) ==
  IF n = 0 THEN {<<>>} ELSE {Append(s, c) : s \in StringsOfLen(A, n - 1), c \in A}

StringsUpTo(A, n) == UNION {StringsOfLen(A, k) : k \in 1..n}

RECURSIVE Join(_, _)
Join(parts, sep) ==
  IF Len(parts) = 0 THEN <<>>
  ELSE IF Len(parts) = 1 THEN parts[1]
  ELSE parts[1] \o sep \o Join(Tail(parts), sep)

RECURSIVE JoinSeps(_, _)
\* part i followed by its own separator seps[i]
JoinSeps(parts, seps) ==
  IF Len(parts) = 0 THEN <<>>
  ELSE parts[1] \o seps[1] \o JoinSeps(Tail(parts), Tail(seps))

Slash == <<"/">>
Space == <<" ">>

EmptyRanks == [i \in 1..8 |-> <<"8">>]

\* tests::starting_position
StartRanks ==
  << <<"r","n","b","q","k","b","n","r">>, <<"p","p","p","p","p","p","p","p">>,
     <<"8">>, <<"8">>, <<"8">>, <<"8">>,
     <<"P","P","P","P","P","P","P","P">>, <<"R","N","B","Q","K","B","N","R">> >>

\* tests::e4_c5_nf3
E4C5Nf3Ranks ==
  << <<"r","n","b","q","k","b","n","r">>, <<"p","p","1","p","p","p","p","p">>,
     <<"8">>, <<"2","p","5">>, <<"4","P","3">>, <<"5","N","2">>,
     <<"P","P","P","P","1","P","P","P">>, <<"R","N","B","Q","K","B","1","R">> >>

GroupAlphabet == {"p", "K", "4", "5", "8"}
RankGroups == StringsUpTo(GroupAlphabet, MaxGroupLen)

\* rank-groups with a character outside the pattern's class
ForeignGroups == {<<"x">>, <<"p", "x">>, <<"9">>, <<"0", "p">>, <<"-">>}

StandardSeps == [i \in 1..8 |-> IF i < 8 THEN Slash ELSE <<>>]

SepPatterns ==
  {StandardSeps, [i \in 1..8 |-> <<>>], [i \in 1..8 |-> Slash]}
  \cup {[StandardSeps EXCEPT ![i] = <<>>] : i \in 1..7}
  \cup {[StandardSeps EXCEPT ![i] = <<"/", "/">>] : i \in {1, 4}}

WellSeparated ==
  {Join(t, Slash) : t \in {EmptyRanks, StartRanks, E4C5Nf3Ranks}}
  \cup {Join([EmptyRanks EXCEPT ![i] = g], Slash) : i \in {1, 4, 8}, g \in RankGroups}
  \cup {Join([StartRanks EXCEPT ![1] = g], Slash) : g \in RankGroups}

OddlySeparated ==
  {JoinSeps(EmptyRanks, seps) : seps \in SepPatterns}
  \cup {JoinSeps(StartRanks, seps) :
          seps \in {[i \in 1..8 |-> <<>>]} \cup {[StandardSeps EXCEPT ![i] = <<>>] : i \in 1..7}}
  \cup {Slash \o Join(EmptyRanks, Slash)}
  \cup {Join(SubSeq(t, 1, k), Slash) : t \in {EmptyRanks, StartRanks}, k \in 1..7}
  \cup {Join(EmptyRanks \o <<g>>, Slash) : g \in {<<"8">>, <<"p">>}}
  \cup {Join([EmptyRanks EXCEPT ![i] = g], Slash) : i \in {1, 8}, g \in ForeignGroups}

PlacementTokens == WellSeparated \cup OddlySeparated

ColorTokens == {<<"w">>, <<"b">>, <<"x">>}
CastlingTokens == {<<"K","q">>, <<"-">>}
EnPassantTokens == {<<"-">>, <<"e","3">>, <<"h","3">>}
HalfMoveTokens == {<<"0">>, <<"x">>}
FullMoveTokens == {<<"1">>, <<"1","2">>, <<"x","y","z">>}

CastlingSweep ==
  StringsUpTo({"K", "Q", "k", "q", "-"}, MaxTokenLen)
  \cup {<<"K","Q","k","q">>, <<"q","k","Q","K">>, <<"K","x","q","K">>, <<"w">>}
EnPassantSweep ==
  StringsUpTo({"a", "g", "h", "3", "6", "-"}, MaxTokenLen)
  \cup {<<"e","3">>, <<"e","4">>, <<"c","6">>, <<"A","3">>, <<"e","3","3">>, <<"b","1">>}
ClockSweep ==
  StringsUpTo({"0", "1", "9", "-", "+", "x"}, MaxTokenLen)
  \cup {<<"2","1","4","7","4","8","3","6","4","7">>, <<"2","1","4","7","4","8","3","6","4","8">>,
        <<"-","2","1","4","7","4","8","3","6","4","8">>, <<"-","2","1","4","7","4","8","3","6","4","9">>}

Line(tokens) == Join(tokens, Space)

\* every placement with a tail that the decoders accept, and the oddly
\* separated ones with the standard tail as well
PlacementTexts ==
  {Line(<<p, <<"w">>, <<"K","Q","k","q">>, <<"e","3">>, <<"0">>, <<"1">>>>) : p \in PlacementTokens}
  \cup {Line(<<p, <<"w">>, <<"K","Q","k","q">>, <<"-">>, <<"0">>, <<"1">>>>) : p \in OddlySeparated}

\* the six fields combined, cut after the first k tokens
FieldTexts ==
  UNION {{Line(SubSeq(<<p, c, ca, e, h, f>>, 1, k)) :
            p \in {Join(EmptyRanks, Slash), Join(StartRanks, Slash), <<"8","/","8">>},
            c \in ColorTokens, ca \in CastlingTokens, e \in EnPassantTokens,
            h \in HalfMoveTokens, f \in FullMoveTokens} : k \in 0..6}

SweepTexts ==
  {Line(<<Join(StartRanks, Slash), <<"b">>, ca, <<"e","3">>, <<"0">>, <<"1">>>>) : ca \in CastlingSweep}
  \cup {Line(<<Join(StartRanks, Slash), <<"b">>, <<"-">>, e, <<"0">>, <<"1">>>>) : e \in EnPassantSweep}
  \cup {Line(<<Join(E4C5Nf3Ranks, Slash), <<"b">>, <<"K">>, <<"c","6">>, h, <<"2">>>>) : h \in ClockSweep}
  \cup {Line(<<Join(E4C5Nf3Ranks, Slash), <<"b">>, <<"K">>, <<"c","6">>, <<"1">>, f>>) :
          f \in {<<"0">>, <<"-", "1">>, <<"+", "9">>, <<"1", "x">>, <<"-">>,
                 <<"2","1","4","7","4","8","3","6","4","8">>}}

SpacedTexts ==
  {Join(<<Join(EmptyRanks, Slash), <<"w">>, <<"-">>, <<"g","6">>, <<"0">>, <<"1">>>>, sep) :
     sep \in {<<" ", " ">>, <<"\t">>, <<"\n", " ">>}}
  \cup {Space \o Line(<<Join(StartRanks, Slash), <<"w">>>>) \o Space, Space, <<"\t", " ">>}

\* the texts of the three tests of the source
TestTexts ==
  {Line(<<Join(EmptyRanks, Slash), <<"w">>, <<"-">>, <<"-">>, <<"0">>, <<"1">>>>),
   Line(<<Join(StartRanks, Slash), <<"w">>, <<"K","Q","k","q">>, <<"-">>, <<"0">>, <<"1">>>>),
   Line(<<Join(E4C5Nf3Ranks, Slash), <<"b">>, <<"K","Q","k","q">>, <<"-">>, <<"1">>, <<"2">>>>)}

Inputs == PlacementTexts \cup FieldTexts \cup SweepTexts \cup SpacedTexts \cup TestTexts

\* the texts whose results the caller may keep as its defaults
SeedTexts ==
  {<<>>,
   Line(<<Join(E4C5Nf3Ranks, Slash), <<"b">>, <<"K","q">>, <<"c","6">>, <<"3">>, <<"7">>>>)}

---------------------------------------------------------------------------
\* The calls

NoResult == [ok |-> FALSE, err |-> "none"]
NoDecoded == [pieces |-> NoResult, active_color |-> NoResult,
              castling_availability |-> NoResult, en_passant |-> NoResult,
              half_move_clock |-> NoResult, full_move_clock |-> NoResult]

Init ==
  /\ text \in SeedTexts
  /\ defaults = GameState_blank
  /\ decoded = NoDecoded
  /\ result = NoResult
  /\ op = "none"
  /\ pc = "seed"

AfterCall == IF pc = "seed" THEN "seeded" ELSE "done"

Parse ==
  /\ pc \in {"seed", "ready"}
  /\ decoded' = DecodeFields(text)
  /\ result' = parse(text)
  /\ op' = "parse"
  /\ pc' = AfterCall
  /\ UNCHANGED <<text, defaults>>

ParseOrDefault ==
  /\ pc \in {"seed", "ready"}
  /\ decoded' = DecodeFields(text)
  /\ result' = Ok(parse_or_default(text))
  /\ op' = "parse_or_default"
  /\ pc' = AfterCall
  /\ UNCHANGED <<text, defaults>>

ParseOrElse ==
  /\ pc \in {"seed", "ready"}
  /\ decoded' = DecodeFields(text)
  /\ result' = Ok(parse_or_else(text, defaults))
  /\ op' = "parse_or_else"
  /\ pc' = AfterCall
  /\ UNCHANGED <<text, defaults>>

\* the caller keeps a returned snapshot as its defaults and takes a new text
NextText ==
  /\ pc = "seeded"
  /\ defaults' = IF result.ok THEN result.val ELSE defaults
  /\ \E t \in Inputs : text' = t
  /\ decoded' = NoDecoded
  /\ result' = NoResult
  /\ op' = "none"
  /\ pc' = "ready"

Next == Parse \/ ParseOrDefault \/ ParseOrElse \/ NextText

Spec == Init /\ [][Next]_vars

---------------------------------------------------------------------------
\* Vocabulary of the properties, stated without the decoders

Tokens == split_whitespace(text)
Token(n) == NextToken(Tokens, n)
Called == op # "none"

Rows == 0..7
Cols == 0..7

RECURSIVE SplitOn(_, _)
\* the parts of s between the occurrences of ch, empty parts included
SplitOn(s, ch) ==
  IF \A i \in 1..Len(s) : s[i] # ch THEN <<s>>
  ELSE LET i == CHOOSE i \in 1..Len(s) : s[i] = ch /\ \A j \in 1..(i - 1) : s[j] # ch
       IN <<SubSeq(s, 1, i - 1)>> \o SplitOn(SubSeq(s, i + 1, Len(s)), ch)

PieceTable ==
  [p |-> <<"Pawn", "Black">>, r |-> <<"Rook", "Black">>, n |-> <<"Knight", "Black">>,
   b |-> <<"Bishop", "Black">>, q |-> <<"Queen", "Black">>, k |-> <<"King", "Black">>,
   P |-> <<"Pawn", "White">>, R |-> <<"Rook", "White">>, N |-> <<"Knight", "White">>,
   B |-> <<"Bishop", "White">>, Q |-> <<"Queen", "White">>, K |-> <<"King", "White">>]

SkipDigits == <<"1", "2", "3", "4", "5", "6", "7", "8">>

IsLetter(c) == c \in DOMAIN PieceTable
IsSkip(c) == \E d \in 1..8 : SkipDigits[d] = c
WidthOf(c) == IF IsLetter(c) THEN 1 ELSE CHOOSE d \in 1..8 : SkipDigits[d] = c

RECURSIVE CursorAt(_, _)
\* the column cursor when character j of rank-group g is met
CursorAt(g, j) == IF j = 1 THEN 0 ELSE CursorAt(g, j - 1) + WidthOf(g[j - 1])

\* the token is 8 non-empty groups of at most 8 letters and digits, joined by 7 '/'
EightGroups(tok) ==
  LET gs == SplitOn(tok, "/")
  IN /\ Len(gs) = 8
     /\ \A i \in 1..8 :
          /\ Len(gs[i]) \in 1..8
          /\ \A j \in 1..Len(gs[i]) : IsLetter(gs[i][j]) \/ IsSkip(gs[i][j])

\* no column cursor of the token goes beyond 8
NoOverflow(tok) ==
  LET gs == SplitOn(tok, "/")
  IN \A i \in 1..Len(gs) : CursorAt(gs[i], Len(gs[i]) + 1) <= 8

\* what rank-group i (from the left) puts on column c, if anything
PlacedAt(gs, r, c) ==
  LET g == gs[8 - r]
      hits == {j \in 1..Len(g) : IsLetter(g[j]) /\ CursorAt(g, j) = c}
  IN IF hits = {} THEN None
     ELSE LET j == CHOOSE j \in hits : TRUE
          IN Some([kind |-> PieceTable[g[j]][1], color |-> PieceTable[g[j]][2],
                   position |-> <<c, r>>])

PieceAt(kind, color, c, r) == Some([kind |-> kind, color |-> color, position |-> <<c, r>>])

BackRank == <<"Rook", "Knight", "Bishop", "Queen", "King", "Bishop", "Knight", "Rook">>

EmptyBoardText ==
  Line(<<Join(EmptyRanks, Slash), <<"w">>, <<"-">>, <<"-">>, <<"0">>, <<"1">>>>)
StartText ==
  Line(<<Join(StartRanks, Slash), <<"w">>, <<"K","Q","k","q">>, <<"-">>, <<"0">>, <<"1">>>>)

---------------------------------------------------------------------------
\* C1: strict parse of a six-field text whose en-passant field is "-" and
\* whose other five fields are well-formed returns Ok with no en-passant
\* target; for the empty-board text the snapshot is the blank one (64 empty
\* squares, White to move, castling mask 0, clocks (0,1)).
C1_StrictAcceptsDash ==
  (/\ op = "parse"
   /\ Len(Tokens) = 6
   /\ Tokens[4] = <<"-">>
   /\ decoded.pieces.ok /\ decoded.active_color.ok /\ decoded.castling_availability.ok
   /\ decoded.half_move_clock.ok /\ decoded.full_move_clock.ok)
  => /\ result.ok
     /\ result.val.en_passant = None
     /\ text = EmptyBoardText =>
          /\ \A r \in Rows, c \in Cols : result.val.pieces[r][c] = None
          /\ result.val.active_color = "White"
          /\ result.val.castling_availability = 0
          /\ result.val.half_move_clock = 0
          /\ result.val.full_move_clock = 1

\* C2: the en-passant decoder gives Err(IncompleteFen) for an absent token,
\* Ok(Some(square)) exactly for a file letter a..g followed by 3 or 6, with
\* column = offset of the letter from 'a' and row = the digit itself, and
\* Err(Generic) for every other token, "-" and h-file squares included; so a
\* strict parse whose first three fields are well-formed and whose fourth
\* token is "-" returns Err(Generic).
EpFiles == <<"a", "b", "c", "d", "e", "f", "g">>

IsEpSquare(tok) ==
  /\ Len(tok) = 2
  /\ \E i \in 1..7 : EpFiles[i] = tok[1]
  /\ tok[2] \in {"3", "6"}

EpSquare(tok) ==
  <<(CHOOSE i \in 1..7 : EpFiles[i] = tok[1]) - 1, IF tok[2] = "3" THEN 3 ELSE 6>>

C3_PlacementGrid ==
  (/\ op = "parse"
   /\ result.ok
   /\ EightGroups(Tokens[1])
   /\ NoOverflow(Tokens[1]))
  => LET gs == SplitOn(Tokens[1], "/")
         grid == result.val.pieces
     IN /\ \A r \in Rows, c \in Cols : grid[r][c] = PlacedAt(gs, r, c)
        /\ Tokens[1] = Join(StartRanks, Slash) =>
             /\ Cardinality({<<r, c>> \in Rows \X Cols : grid[r][c].some}) = 32
             /\ \A c \in Cols :
                  /\ grid[0][c] = PieceAt(BackRank[c + 1], "White", c, 0)
                  /\ grid[1][c] = PieceAt("Pawn", "White", c, 1)
                  /\ \A r \in 2..5 : grid[r][c] = None
                  /\ grid[6][c] = PieceAt("Pawn", "Black", c, 6)
                  /\ grid[7][c] = PieceAt(BackRank[c + 1], "Black", c, 7)

C3_Witness ==
  /\ op = "parse"
  /\ result.ok
  /\ Tokens[1] = Join(E4C5Nf3Ranks, Slash)
  /\ result.val.pieces[3][4] = PieceAt("Pawn", "White", 4, 3)
  /\ result.val.pieces[4][2] = PieceAt("Pawn", "Black", 2, 4)

\* C4: strict parse returns Ok only if all six field decoders succeed, and
\* otherwise returns exactly the error of the earliest failing field in token
\* order, whatever the later fields hold, and no snapshot; a well-formed
\* placement followed by the colour token "x" and nothing else gives
\* Err(IllegalInput), not Err(IncompleteFen).
FieldResults ==
  <<decoded.pieces, decoded.active_color, decoded.castling_availability,
    decoded.en_passant, decoded.half_move_clock, decoded.full_move_clock>>

Failing == {i \in 1..6 : ~FieldResults[i].ok}

Earliest(S) == CHOOSE i \in S : \A j \in S : i <= j

C4_EarliestFailure ==
  op = "parse" =>
    /\ result.ok <=> Failing = {}
    /\ Failing # {} => result = [ok |-> FALSE, err |-> FieldResults[Earliest(Failing)].err]
    /\ (/\ Len(Tokens) = 2
        /\ decoded.pieces.ok
        /\ Tokens[2] = <<"x">>) => result = Err(IllegalInput)

C4_Witness ==
  /\ op = "parse"
  /\ Len(Tokens) = 2
  /\ decoded.pieces.ok
  /\ Tokens[2] = <<"x">>
  /\ result = Err(IllegalInput)

\* C5 as stated: strict parse of the empty string, or of any text with fewer
\* than six whitespace-separated tokens, returns Err(IncompleteFen).
C5_FewerTokensIncomplete ==
  (op = "parse" /\ Len(Tokens) < 6) => result = Err(IncompleteFen)

\* C5 amended: strict parse of a text with fewer than six tokens never
\* returns Ok; it returns Err(IncompleteFen), for the first missing field,
\* when every token present is accepted by its field's decoder (the empty
\* string included), and otherwise the error, Generic or IllegalInput, of the
\* earliest present token that its decoder rejects.
Rejected == {i \in 1..Len(Tokens) : i <= 6 /\ ~FieldResults[i].ok}

C5_FewerTokens ==
  (op = "parse" /\ Len(Tokens) < 6) =>
    /\ ~result.ok
    /\ Rejected = {} =>
         /\ result = Err(IncompleteFen)
         /\ FieldResults[Len(Tokens) + 1] = Err(IncompleteFen)
    /\ Rejected # {} =>
         /\ result = Err(FieldResults[Earliest(Rejected)].err)
         /\ result.err \in {Generic, IllegalInput}
    /\ text = <<>> => result = Err(IncompleteFen)

C5_Witness ==
  /\ op = "parse"
  /\ Len(Tokens) = 5
  /\ Rejected = {}
  /\ result = Err(IncompleteFen)

\* C6: lenient decoding never fails and takes the five non-placement fields
\* from the defaults, whether the tokens are absent, malformed or valid:
\* parse_or_else returns the defaults' active colour, castling mask,
\* en-passant target and clocks, and parse_or_default returns White, mask 0,
\* no en-passant and clocks (0,1).
C6_LenientKeepsDefaults ==
  /\ op = "parse_or_else" =>
       /\ result.ok
       /\ result.val.active_color = defaults.active_color
       /\ result.val.castling_availability = defaults.castling_availability
       /\ result.val.en_passant = defaults.en_passant
       /\ result.val.half_move_clock = defaults.half_move_clock
       /\ result.val.full_move_clock = defaults.full_move_clock
  /\ op = "parse_or_default" =>
       /\ result.ok
       /\ result.val.active_color = "White"
       /\ result.val.castling_availability = 0
       /\ result.val.en_passant = None
       /\ result.val.half_move_clock = 0
       /\ result.val.full_move_clock = 1

C6_Witness ==
  /\ op = "parse_or_else"
  /\ pc = "done"
  /\ defaults.full_move_clock = 7
  /\ defaults.active_color = "Black"
  /\ Len(Tokens) = 6
  /\ Tokens[2] = <<"w">>
  /\ Tokens[6] = <<"1", "2">>
  /\ decoded.full_move_clock = Ok(12)
  /\ result.ok
  /\ result.val.full_move_clock = 7

\* C7: the castling decoder gives Err(IncompleteFen) for an absent token and
\* otherwise Ok of the mask in 0..15 that has 1 for 'K', 2 for 'Q', 4 for 'k'
\* and 8 for 'q' present in the token, whatever their order, number and the
\* other characters: "KQkq" gives 15, "Kq" gives 9, "-" gives 0.
Chars(tok) == {tok[i] : i \in 1..Len(tok)}

Flag(tok, c, bit) == IF c \in Chars(tok) THEN bit ELSE 0

MaskOf(tok) == Flag(tok, "K", 1) + Flag(tok, "Q", 2) + Flag(tok, "k", 4) + Flag(tok, "q", 8)

C7_CastlingMask ==
  Called =>
    LET tok == Token(3)
        r == decoded.castling_availability
    IN /\ ~tok.some => r = Err(IncompleteFen)
       /\ tok.some =>
            /\ r.ok
            /\ r.val \in 0..15
            /\ r.val = MaskOf(tok.val)
            /\ tok.val = <<"K", "Q", "k", "q">> => r.val = 15
            /\ tok.val = <<"K", "q">> => r.val = 9
            /\ Chars(tok.val) \cap {"K", "Q", "k", "q"} = {} => r.val = 0

C7_Witness ==
  /\ Called
  /\ Token(3) = Some(<<"q", "K">>)
  /\ decoded.castling_availability = Ok(9)

\* C8: the placement decoder accepts a present token only if it is exactly 8
\* rank-groups of 1 to 8 piece letters and digits 1-8 separated by 7 '/',
\* none leading or trailing; an absent token gives Err(IncompleteFen) and a
\* present token of any other shape gives Err(Generic), "88888888",
\* "8/8/8/8/8/8/88" and "8/8/8/8/8/8/8/8/" included.
C8_ShapeCheck ==
  Called =>
    LET tok == Token(1)
        r == decoded.pieces
    IN /\ ~tok.some => r = Err(IncompleteFen)
       /\ (tok.some /\ r.ok) => EightGroups(tok.val)
       /\ (tok.some /\ ~EightGroups(tok.val)) => r = Err(Generic)

\* C9: column overflow is never an error and never leaves the grid: every
\* decoded piece has column and row in 0..7 and sits on the grid cell of
\* those indices; once the cursor of a rank-group is at 8 or more the rest of
\* that group places nothing, the other groups are decoded as usual, and the
\* placement decoder still returns Ok.
DecodedPieces == {decoded.pieces.val[i] : i \in 1..Len(decoded.pieces.val)}

C9_NoOverflowOffGrid ==
  Called =>
    /\ decoded.pieces.ok =>
         /\ \A p \in DecodedPieces : p.position[1] \in Cols /\ p.position[2] \in Rows
         /\ result.ok =>
              \A p \in DecodedPieces : result.val.pieces[p.position[2]][p.position[1]] = Some(p)
    /\ result.ok =>
         \A r \in Rows, c \in Cols :
           result.val.pieces[r][c].some => result.val.pieces[r][c].val.position = <<c, r>>
    /\ (Token(1).some /\ EightGroups(Token(1).val)) =>
         LET gs == SplitOn(Token(1).val, "/")
         IN /\ decoded.pieces.ok
            /\ DecodedPieces =
                 {PlacedAt(gs, r, c).val : <<r, c>> \in {rc \in Rows \X Cols : PlacedAt(gs, rc[1], rc[2]).some}}

C9_Witness ==
  /\ op = "parse"
  /\ result.ok
  /\ EightGroups(Tokens[1])
  /\ SplitOn(Tokens[1], "/")[1] = <<"8", "p">>
  /\ SplitOn(Tokens[1], "/")[2] = <<"p", "p", "p", "p", "p", "p", "p", "p">>
  /\ \A c \in Cols : result.val.pieces[7][c] = None
  /\ \A c \in Cols : result.val.pieces[6][c] = PieceAt("Pawn", "Black", c, 6)

\* C10: lenient decoding overlays the decoded placement on the defaults'
\* grid: each square of parse_or_else(text, defaults) holds the piece the
\* text places there, if any, and otherwise what defaults holds there, so
\* digits do not clear the defaults' pieces; with the placement token absent
\* or failing the shape check the snapshot equals defaults in every field.
LastPlaced(r, c) ==
  LET at == {i \in 1..Len(decoded.pieces.val) : decoded.pieces.val[i].position = <<c, r>>}
  IN IF at = {} THEN None
     ELSE Some(decoded.pieces.val[CHOOSE i \in at : \A j \in at : j <= i])

C10_LenientOverlay ==
  op = "parse_or_else" =>
    /\ result.ok
    /\ ~decoded.pieces.ok => result.val = defaults
    /\ ~Token(1).some => ~decoded.pieces.ok
    /\ decoded.pieces.ok =>
         \A r \in Rows, c \in Cols :
           result.val.pieces[r][c] =
             IF LastPlaced(r, c).some THEN LastPlaced(r, c) ELSE defaults.pieces[r][c]
    /\ (Token(1).some /\ EightGroups(Token(1).val)) =>
         LET gs == SplitOn(Token(1).val, "/")
         IN \A r \in Rows, c \in Cols :
              result.val.pieces[r][c] =
                IF PlacedAt(gs, r, c).some THEN PlacedAt(gs, r, c) ELSE defaults.pieces[r][c]

C10_Witness ==
  /\ op = "parse_or_else"
  /\ pc = "done"
  /\ defaults.pieces[0][0] = PieceAt("Rook", "White", 0, 0)
  /\ Len(Tokens) = 6
  /\ Tokens[1] = Join([EmptyRanks EXCEPT ![4] = <<"4", "K">>], Slash)
  /\ result.val.pieces[0][0] = defaults.pieces[0][0]
  /\ result.val.pieces[4][2] = PieceAt("Pawn", "Black", 2, 4)
  /\ defaults.pieces[4][4] = None
  /\ result.val.pieces[4][4] = PieceAt("King", "White", 4, 4)

====
